---------------------------- MODULE Spec2Model ----------------------------
(***************************************************************************)
(* A model of vsphere_inventory.py: the VSphere object's working          *)
(* collection (append_vm_info, filter_inventory, grouped_inventory,       *)
(* list_inventory), the cache manager (list_and_save, cached_inventory)   *)
(* run by concurrent invocations sharing one cache path, and the option   *)
(* resolution of main.                                                     *)
(***************************************************************************)
EXTENDS Integers, Sequences, FiniteSets, TLC

VARIABLES
    inventory,   \* self.inventory of the VSphere object
    call,        \* the last method call on the object: its arguments and result
    view,        \* the virtual machines the Session Provider enumerates
    filters,     \* the filter mapping handed to list_inventory
    docs,        \* the results of the list_inventory runs on the object so far
    cachePath,   \* cache_path, shared by the invocations
    dirExists,   \* whether the directory part of the cache path exists
    dirCreatable,\* whether the invocations may create that directory
    file,        \* the cache file: whether it is there, its content, its mtime
    now,         \* time()
    proc,        \* each invocation of cached_inventory: its position and locals
    argv,        \* the command line of main
    ini,         \* the options set in the configuration file
    args,        \* the namespace get_args returns, as main updates it
    conf,        \* the values parse_config returns
    mainpc,      \* the position of main
    session      \* the session VSphere.__init__ opens

objVars == <<inventory, call, view, filters, docs>>
cacheVars == <<cachePath, dirExists, dirCreatable, file, now, proc>>
mainVars == <<argv, ini, args, conf, mainpc, session>>
vars == <<objVars, cacheVars, mainVars>>

-----------------------------------------------------------------------------
(* Bounds of the model.                                                    *)

\* The longest working collection the object API actions build.
MaxInv == 3
\* The number of pipeline runs on one object.
MaxRuns == 2
\* cache_ttl, in ticks of the model's clock.
CacheTtl == 2
\* The number of tokens one flush of the file buffer writes.
BufSize == 4

-----------------------------------------------------------------------------
(* Python values.  Every value carries its type, so that str(), truth      *)
(* testing, == and type(x) == list behave as in Python.                    *)

Str(s) == [t |-> "str", v |-> s]
Bool(b) == [t |-> "bool", v |-> b]
PyInt(n) == [t |-> "int", v |-> n]
None == [t |-> "none"]
List(q) == [t |-> "list", v |-> q]
\* A pyVmomi data object: a class name and the attributes that are set on it.
Obj(attrs) == [t |-> "obj", attrs |-> attrs]

\* Python truth value testing: `if name:`, `if d[field]:`, `if not args.x:`.
Truthy(x) ==
    CASE x.t = "none" -> FALSE
      [] x.t = "bool" -> x.v
      [] x.t = "int"  -> x.v # 0
      [] x.t = "str"  -> x.v # ""
      [] x.t = "list" -> x.v # <<>>
      [] OTHER        -> TRUE

\* repr of a list of strings, as str() prints it.
ListRepr(q) ==
    CASE q = <<>> -> "[]"
      [] q = <<Str("eth0")>> -> "['eth0']"
      [] q = <<Str("eth0"), Str("eth1")>> -> "['eth0', 'eth1']"

\* str(x): the builtin conversion used by the scalar predicate.
str(x) ==
    CASE x.t = "none" -> "None"
      [] x.t = "bool" -> (IF x.v THEN "True" ELSE "False")
      [] x.t = "str"  -> x.v
      [] x.t = "list" -> ListRepr(x.v)

\* x in q for a Python list q (membership by ==).
PyIn(x, q) == \E i \in 1..Len(q) : q[i] = x

\* list.remove(x): drops the first element equal to x.
RECURSIVE ListRemove(_, _)
ListRemove(q, x) ==
    IF q = <<>> THEN q
    ELSE IF Head(q) = x THEN Tail(q)
    ELSE <<Head(q)>> \o ListRemove(Tail(q), x)

\* getattr(obj, attr, default): the default only when the attribute is not there.
getattr(obj, attr, default) ==
    IF obj.t = "obj" /\ attr \in DOMAIN obj.attrs THEN obj.attrs[attr] ELSE default

-----------------------------------------------------------------------------
(* The raw virtual machines of the Session Provider.                      *)

\* One hardware device: a VirtualEthernetCard or not, its connectable.connected
\* flag and its backing.deviceName.
Device(eth, conn, dev) == [isEthernet |-> eth, connected |-> conn, deviceName |-> Str(dev)]

\* The hardware profiles and summaries the provider's machines have.
Profiles ==
    { [ devices |-> <<Device(TRUE, TRUE, "eth0")>>,
        summaryGuest |-> Obj([guestId |-> Str("centosGuest"),
                              guestFullName |-> Str("CentOS 4/5/6"),
                              ipAddress |-> Str("10.0.0.1")]),
        configGuestId |-> Obj([guestId |-> Str("otherGuest")]),
        template |-> FALSE, powerState |-> "poweredOn", uuid |-> Str("uuid-1") ],
      [ devices |-> <<Device(TRUE, TRUE, "eth0"), Device(FALSE, TRUE, "cdrom"),
                      Device(TRUE, TRUE, "eth1")>>,
        summaryGuest |-> Obj([class |-> "GuestSummary"]),
        configGuestId |-> Obj([guestId |-> Str("centos64Guest")]),
        template |-> FALSE, powerState |-> "poweredOff", uuid |-> Str("uuid-2") ],
      [ devices |-> <<Device(TRUE, FALSE, "eth0"), Device(FALSE, TRUE, "disk")>>,
        summaryGuest |-> Obj([class |-> "GuestSummary"]),
        configGuestId |-> Obj([class |-> "ConfigSummary"]),
        template |-> TRUE, powerState |-> "poweredOff", uuid |-> None ] }

\* virtual_machine.guest: no guest object, hostName not set on it, hostName
\* set to None, to the empty string, or to a host name.
GuestOpts ==
    { None,
      Obj([class |-> "GuestInfo"]),
      Obj([class |-> "GuestInfo", hostName |-> None]),
      Obj([class |-> "GuestInfo", hostName |-> Str("")]),
      Obj([class |-> "GuestInfo", hostName |-> Str("host1")]) }

\* virtual_machine.name: the management display name.
NameOpts == { None, Str(""), Str("vm1") }

\* A vim.VirtualMachine view object.
VirtualMachine(guest, name, p) ==
    [ guest |-> guest, name |-> name, devices |-> p.devices,
      summaryGuest |-> p.summaryGuest, configGuestId |-> p.configGuestId,
      configGuestFullName |-> Str("Other (32-bit)"),
      instanceUuid |-> p.uuid, template |-> Bool(p.template),
      powerState |-> Str(p.powerState) ]

RawVMs == { VirtualMachine(g, n, p) : g \in GuestOpts, n \in NameOpts, p \in Profiles }

-----------------------------------------------------------------------------
(* VSphere.append_vm_info                                                  *)

\* The loop over config.hardware.device: the backing names of the connected
\* ethernet cards, in device order.
RECURSIVE ActiveNet(_)
ActiveNet(devices) ==
    IF devices = <<>> THEN <<>>
    ELSE LET dev == Head(devices) IN
         (IF dev.isEthernet /\ dev.connected THEN <<dev.deviceName>> ELSE <<>>)
            \o ActiveNet(Tail(devices))

\* name = getattr(virtual_machine.guest, 'hostName', virtual_machine.name)
ResolveName(vm) == getattr(vm.guest, "hostName", vm.name)

\* The dictionary append_vm_info builds for one machine.
VmInfo(vm) ==
    [ name |-> ResolveName(vm),
      guest_id |-> getattr(vm.summaryGuest, "guestId",
                           getattr(vm.configGuestId, "guestId", None)),
      guest_full_name |-> getattr(vm.summaryGuest, "guestFullName", vm.configGuestFullName),
      net |-> List(ActiveNet(vm.devices)),
      state |-> vm.powerState,
      instance_uuid |-> vm.instanceUuid,
      template |-> vm.template,
      ip_address |-> getattr(vm.summaryGuest, "ipAddress", None) ]

\* self.inventory after append_vm_info(virtual_machine).
append_vm_info(inv, vm) ==
    IF Truthy(ResolveName(vm)) THEN Append(inv, VmInfo(vm)) ELSE inv

-----------------------------------------------------------------------------
(* VSphere.filter_inventory                                                *)

\* The filter mappings of the model, as parse_config leaves them: each an
\* ordered mapping of attribute name to a string or to a list of strings.
FilterSets ==
    { <<>>,
      << <<"template", Str("False")>> >>,
      << <<"state", Str("poweredOn")>> >>,
      << <<"guest_id", Str("None")>> >>,
      << <<"name", List(<<Str("host1"), Str("web9")>>)>> >>,
      << <<"template", Str("False")>>, <<"state", Str("poweredOn")>> >>,
      << <<"guest_id", List(<<Str("centos64Guest"), Str("centosGuest")>>)>>,
         <<"template", Str("False")>> >>,
      << <<"template", List(<<Str("False"), Str("True")>>)>> >>,
      << <<"datacenter", Str("dc1")>> >>,
      << <<"state", Str("poweredOn")>>, <<"datacenter", Str("dc1")>> >> }

\* d[name] raises KeyError.
KeyMissing(d, name) == name \notin DOMAIN d

\* Whether record d fails the predicate name=value.
FailsPredicate(d, name, value) ==
    IF value.t = "list" THEN ~PyIn(d[name], value.v)
    ELSE str(d[name]) # value.v

RECURSIVE FilterItems(_, _, _, _)

\* FilterItems with d.get(name) in place of d[name]: a name the record does
\* not have is looked up as None.
FilterItemsLenient(inv, d, kwargs, k) ==
    IF k > Len(kwargs) THEN [inventory |-> inv, error |-> "none"]
    ELSE LET name == kwargs[k][1]
             value == kwargs[k][2]
             x == IF KeyMissing(d, name) THEN None ELSE d[name]
             fails == IF value.t = "list" THEN ~PyIn(x, value.v) ELSE str(x) # value.v
         IN FilterItems(IF fails /\ PyIn(d, inv) THEN ListRemove(inv, d) ELSE inv,
                        d, kwargs, k + 1)

\* The inner loop over kwargs.items() for one record d, from the k-th item.
FilterItems(inv, d, kwargs, k) ==
    IF k > Len(kwargs) THEN [inventory |-> inv, error |-> "none"]
    ELSE LET name == kwargs[k][1]
             value == kwargs[k][2]
         IN IF KeyMissing(d, name) THEN [inventory |-> inv, error |-> "KeyError"]
            ELSE FilterItems(IF FailsPredicate(d, name, value) /\ PyIn(d, inv)
                                THEN ListRemove(inv, d) ELSE inv,
                             d, kwargs, k + 1)

\* Whether the reversed() iterator, at position idx of a list that now has
\* n elements, yields another element.
ReversedHasNext(idx, n) == 1 <= idx /\ idx <= n

\* The outer loop `for d in reversed(self.inventory)`, with the iterator at
\* position idx (1-based) of the list as it is now.
RECURSIVE FilterLoop(_, _, _)
FilterLoop(inv, idx, kwargs) ==
    IF ~ReversedHasNext(idx, Len(inv)) THEN [inventory |-> inv, error |-> "none"]
    ELSE LET r == FilterItems(inv, inv[idx], kwargs, 1)
         IN IF r.error # "none" THEN r ELSE FilterLoop(r.inventory, idx - 1, kwargs)

\* self.inventory after filter_inventory(**kwargs), and the exception raised.
filter_inventory(inv, kwargs) == FilterLoop(inv, Len(inv), kwargs)

-----------------------------------------------------------------------------
(* VSphere.grouped_inventory                                               *)

\* key in data, for the insertion-ordered dict data.
DictHas(data, key) == \E i \in 1..Len(data) : data[i].key = key

\* data[key].append(x) when the key is there, data[key] = [x] when it is not.
DictAppend(data, key, x) ==
    IF DictHas(data, key)
    THEN [i \in 1..Len(data) |->
            IF data[i].key = key THEN [data[i] EXCEPT !.val = List(Append(@.v, x))]
            ELSE data[i]]
    ELSE Append(data, [key |-> key, val |-> List(<<x>>)])

\* The loop `for g in d[group]`.
RECURSIVE GroupAll(_, _, _)
GroupAll(data, gs, x) ==
    IF gs = <<>> THEN data ELSE GroupAll(DictAppend(data, Head(gs), x), Tail(gs), x)

\* GroupRecord with a list-valued group attribute reduced to its first
\* element.
GroupRecordFirstOnly(data, d, group, field) ==
    IF Truthy(d[field])
    THEN IF d[group].t = "list"
         THEN GroupAll(data, IF d[group].v = <<>> THEN <<>> ELSE <<Head(d[group].v)>>,
                       d[field])
         ELSE DictAppend(data, d[group], d[field])
    ELSE data

\* The body of the loop over self.inventory for one record d.
GroupRecord(data, d, group, field) ==
    IF Truthy(d[field])
    THEN IF d[group].t = "list" THEN GroupAll(data, d[group].v, d[field])
         ELSE DictAppend(data, d[group], d[field])
    ELSE data

RECURSIVE GroupLoop(_, _, _, _)
GroupLoop(data, inv, group, field) ==
    IF inv = <<>> THEN data
    ELSE GroupLoop(GroupRecord(data, Head(inv), group, field), Tail(inv), group, field)

\* The dictionary grouped_inventory(group, field) returns.
grouped_inventory(inv, group, field) == GroupLoop(<<>>, inv, group, field)

-----------------------------------------------------------------------------
(* VSphere.list_inventory                                                  *)

\* The loop `for vm in vms_view: self.append_vm_info(vm)`.
RECURSIVE AppendAll(_, _)
AppendAll(inv, vms) ==
    IF vms = <<>> THEN inv ELSE AppendAll(append_vm_info(inv, Head(vms)), Tail(vms))

\* The value of the fixed key "_meta".
Hostvars == [t |-> "dict", v |-> "hostvars"]

\* output.update({"_meta": {"hostvars": {}}})
DictUpdateMeta(data) ==
    IF DictHas(data, Str("_meta"))
    THEN [i \in 1..Len(data) |->
            IF data[i].key = Str("_meta") THEN [data[i] EXCEPT !.val = Hostvars] ELSE data[i]]
    ELSE Append(data, [key |-> Str("_meta"), val |-> Hostvars])

\* self.inventory after list_inventory(filters), the document it returns and
\* the exception it raises.
list_inventory(inv, vms, kwargs) ==
    LET r == filter_inventory(AppendAll(inv, vms), kwargs)
    IN [ inventory |-> r.inventory,
         error |-> r.error,
         output |-> IF r.error = "none"
                    THEN DictUpdateMeta(grouped_inventory(r.inventory, "net", "name"))
                    ELSE <<>> ]

-----------------------------------------------------------------------------
(* The VSphere object: its methods called in any order on one object.     *)

NoCall == [op |-> "none", arg |-> <<>>, before |-> <<>>, error |-> "none", result |-> <<>>]

\* main has not been started.
MainIdle ==
    /\ argv = <<>>
    /\ ini = <<>>
    /\ args = <<>>
    /\ conf = <<>>
    /\ mainpc = "idle"
    /\ session = <<>>

\* No invocation of cached_inventory is running.
CacheIdle ==
    /\ cachePath = ""
    /\ dirExists = FALSE
    /\ dirCreatable = FALSE
    /\ file = [exists |-> FALSE, content |-> <<>>, mtime |-> 0]
    /\ now = 0
    /\ proc = <<>>

\* The object after __init__ (self.inventory = []), nothing called yet.
ObjInit ==
    /\ inventory = <<>>
    /\ call = NoCall
    /\ view = <<>>
    /\ filters = <<>>
    /\ docs = <<>>

\* The attribute names grouped_inventory is called with.
GroupAttrs == {"net", "state", "guest_id", "template"}
FieldAttrs == {"name", "ip_address", "instance_uuid"}

AppendVmInfo ==
    \E vm \in RawVMs :
        /\ Len(inventory) < MaxInv
        /\ inventory' = append_vm_info(inventory, vm)
        /\ call' = [op |-> "append_vm_info", arg |-> vm, before |-> inventory,
                    error |-> "none", result |-> <<>>]
        /\ UNCHANGED <<view, filters, docs, cacheVars, mainVars>>

FilterInventory ==
    \E kwargs \in FilterSets :
        LET r == filter_inventory(inventory, kwargs)
        IN /\ inventory' = r.inventory
           /\ call' = [op |-> "filter_inventory", arg |-> kwargs, before |-> inventory,
                       error |-> r.error, result |-> <<>>]
           /\ UNCHANGED <<view, filters, docs, cacheVars, mainVars>>

GroupedInventory ==
    \E group \in GroupAttrs, field \in FieldAttrs :
        /\ call' = [op |-> "grouped_inventory", arg |-> <<group, field>>,
                    before |-> inventory, error |-> "none",
                    result |-> grouped_inventory(inventory, group, field)]
        /\ UNCHANGED <<inventory, view, filters, docs, cacheVars, mainVars>>

Init == ObjInit /\ CacheIdle /\ MainIdle
Next == AppendVmInfo \/ FilterInventory \/ GroupedInventory
Spec == Init /\ [][Next]_vars

-----------------------------------------------------------------------------
(* Pipeline runs: list_inventory called again and again on one object,     *)
(* the provider's contents and the filters unchanged.                      *)

\* The longest enumeration of the provider.
MaxView == 2

\* The machines the provider of the pipeline runs manages.
ProviderVMs == { vm \in RawVMs : vm.name = Str("vm1") }

RECURSIVE SeqsUpTo(_, _)
SeqsUpTo(S, n) ==
    IF n = 0 THEN { <<>> }
    ELSE LET shorter == SeqsUpTo(S, n - 1)
         IN shorter \cup { Append(q, x) : q \in shorter, x \in S }

InitPipeline ==
    /\ inventory = <<>>
    /\ call = NoCall
    /\ view \in SeqsUpTo(ProviderVMs, MaxView)
    /\ filters \in FilterSets
    /\ docs = <<>>
    /\ CacheIdle
    /\ MainIdle

ListInventory ==
    /\ Len(docs) < MaxRuns
    /\ LET r == list_inventory(inventory, view, filters)
       IN /\ inventory' = r.inventory
          /\ docs' = Append(docs, [output |-> r.output, error |-> r.error])
    /\ UNCHANGED <<call, view, filters, cacheVars, mainVars>>

NextPipeline == ListInventory
SpecPipeline == InitPipeline /\ [][NextPipeline]_vars

-----------------------------------------------------------------------------
(* Properties of the object's methods.                                     *)

\* The attributes of a VM Record.
RecordAttrs == {"name", "guest_id", "guest_full_name", "net", "state",
                "instance_uuid", "template", "ip_address"}

\* A list predicate is satisfied by membership, a scalar one by equality of
\* the string form.
SatisfiesPredicate(d, name, value) ==
    IF value.t = "list" THEN PyIn(d[name], value.v) ELSE str(d[name]) = value.v

SatisfiesAll(d, kwargs) ==
    \A k \in 1..Len(kwargs) : SatisfiesPredicate(d, kwargs[k][1], kwargs[k][2])

KnownKeys(kwargs) == \A k \in 1..Len(kwargs) : kwargs[k][1] \in RecordAttrs

\* C1: after filter_inventory with a mapping whose keys are all record
\* attributes, the collection is exactly the records that satisfy every
\* predicate, in their original order, whether or not records repeat.
C1_FilterKeepsExactlySatisfying ==
    (call.op = "filter_inventory" /\ KnownKeys(call.arg)) =>
        /\ call.error = "none"
        /\ inventory = SelectSeq(call.before, LAMBDA d : SatisfiesAll(d, call.arg))

\* C8: filter_inventory with a mapping that holds a name which is no record
\* attribute ends in a lookup failure, whatever the collection.
C8_UnknownKeyAlwaysFails ==
    (call.op = "filter_inventory" /\ ~KnownKeys(call.arg)) => call.error = "KeyError"

\* C8, amended: with such a mapping the call ends in a lookup failure on
\* every non-empty collection, and on the empty collection it returns
\* without an error and leaves the collection empty.
C8_UnknownKeyFailsOnNonEmpty ==
    (call.op = "filter_inventory" /\ ~KnownKeys(call.arg)) =>
        /\ call.before # <<>> => call.error = "KeyError"
        /\ call.before = <<>> => (call.error = "none" /\ inventory = <<>>)

\* C8, witness: a lookup failure on a collection of two records, the unknown
\* name second in the mapping.
C8_Witness ==
    /\ call.op = "filter_inventory"
    /\ Len(call.arg) = 2
    /\ ~KnownKeys(call.arg)
    /\ Len(call.before) = 2
    /\ call.error = "KeyError"

\* The contributions of a collection to the grouping, in encounter order:
\* one <<key, value>> per element of a list-valued group attribute, one for a
\* scalar group attribute, none for a record whose field value is falsy.
RECURSIVE Contributions(_, _, _)
Contributions(inv, group, field) ==
    IF inv = <<>> THEN <<>>
    ELSE LET d == Head(inv)
             own == IF ~Truthy(d[field]) THEN <<>>
                    ELSE IF d[group].t = "list"
                         THEN [i \in 1..Len(d[group].v) |-> <<d[group].v[i], d[field]>>]
                         ELSE << <<d[group], d[field]>> >>
         IN own \o Contributions(Tail(inv), group, field)

\* The values contributed under key, in order.
ValuesUnder(c, key) ==
    LET s == SelectSeq(c, LAMBDA e : e[1] = key) IN [i \in 1..Len(s) |-> s[i][2]]

\* The keys of the contributions, each at its first occurrence.
RECURSIVE FirstEncounter(_, _)
FirstEncounter(c, seen) ==
    IF c = <<>> THEN <<>>
    ELSE IF Head(c)[1] \in seen THEN FirstEncounter(Tail(c), seen)
    ELSE <<Head(c)[1]>> \o FirstEncounter(Tail(c), seen \cup {Head(c)[1]})

\* C6: grouped_inventory(group, field) returns the reference grouping: the
\* keys are the contributed keys in first-encounter order, and each key maps
\* to the values contributed under it, in order and with repetitions.
C6_GroupingIsReference ==
    call.op = "grouped_inventory" =>
        LET c == Contributions(call.before, call.arg[1], call.arg[2])
            data == call.result
        IN /\ [i \in 1..Len(data) |-> data[i].key] = FirstEncounter(c, {})
           /\ \A i \in 1..Len(data) : data[i].val = List(ValuesUnder(c, data[i].key))

\* C6, witness: a grouping by net of three records, one of them with two
\* connected adapters, in which a group lists two values.
C6_Witness ==
    /\ call.op = "grouped_inventory"
    /\ call.arg = <<"net", "name">>
    /\ Len(call.before) = 3
    /\ \E i \in 1..3 : Len(call.before[i].net.v) = 2
    /\ \E i \in 1..3 : call.before[i].net.v = <<>>
    /\ Len(call.result) = 2
    /\ \E i \in 1..2 : Len(call.result[i].val.v) = 2

\* Whether the live guest hostname of a machine is present and non-empty.
HostNameAvailable(vm) ==
    /\ vm.guest.t = "obj"
    /\ "hostName" \in DOMAIN vm.guest.attrs
    /\ Truthy(vm.guest.attrs.hostName)

\* C7: append_vm_info appends exactly one record, named by the guest
\* hostname when that is available and by the display name otherwise, unless
\* both are absent or empty, and then it appends nothing.
C7_NameResolution ==
    call.op = "append_vm_info" =>
        LET vm == call.arg
            n == Len(call.before)
        IN IF HostNameAvailable(vm)
           THEN /\ Len(inventory) = n + 1
                /\ SubSeq(inventory, 1, n) = call.before
                /\ inventory[n + 1].name = vm.guest.attrs.hostName
           ELSE IF Truthy(vm.name)
           THEN /\ Len(inventory) = n + 1
                /\ SubSeq(inventory, 1, n) = call.before
                /\ inventory[n + 1].name = vm.name
           ELSE inventory = call.before

\* C9: every run of the pipeline on one object, the provider's contents and
\* the filters unchanged, returns what the first run returned.
C9_RunsReturnFirstDocument ==
    \A i \in 1..Len(docs) : docs[i] = docs[1]

-----------------------------------------------------------------------------
(* json.dump and json.load of an inventory document, as token sequences.   *)

Tok(k, s) == [k |-> k, s |-> s]

\* What a read finds where a file was extended past its end and not written.
Hole == Tok("hole", "")

\* The JSON string a key or a name is written as.
JsonString(x) ==
    CASE x.t = "str"  -> x.v
      [] x.t = "none" -> "null"
      [] x.t = "bool" -> (IF x.v THEN "true" ELSE "false")

HostvarsTokens ==
    <<Tok("{", ""), Tok("str", "hostvars"), Tok("{", ""), Tok("}", ""), Tok("}", "")>>

\* The serialization of one value of the document: a list of strings, or the
\* dictionary under "_meta".
DumpValue(val) ==
    IF val.t = "list"
    THEN <<Tok("[", "")>> \o [i \in 1..Len(val.v) |-> Tok("str", JsonString(val.v[i]))]
            \o <<Tok("]", "")>>
    ELSE HostvarsTokens

RECURSIVE DumpItems(_)
DumpItems(doc) ==
    IF doc = <<>> THEN <<>>
    ELSE <<Tok("str", JsonString(Head(doc).key))>> \o DumpValue(Head(doc).val)
            \o DumpItems(Tail(doc))

\* dump(data, fp): the tokens written for the document data.
dump(doc) == <<Tok("{", "")>> \o DumpItems(doc) \o <<Tok("}", "")>>

\* The decoder raises ValueError.
ParseError == [ok |-> FALSE, next |-> 0, val |-> <<>>]

\* The elements of an array, from token i, up to its closing bracket.
RECURSIVE ParseList(_, _, _)
ParseList(toks, i, acc) ==
    IF i > Len(toks) THEN ParseError
    ELSE IF toks[i].k = "]" THEN [ok |-> TRUE, next |-> i + 1, val |-> List(acc)]
    ELSE IF toks[i].k = "str" THEN ParseList(toks, i + 1, Append(acc, Str(toks[i].s)))
    ELSE ParseError

\* One value, from token i.
ParseValue(toks, i) ==
    IF i > Len(toks) THEN ParseError
    ELSE IF toks[i].k = "[" THEN ParseList(toks, i + 1, <<>>)
    ELSE IF toks[i].k = "{"
         THEN IF i + 4 <= Len(toks) /\ SubSeq(toks, i, i + 4) = HostvarsTokens
              THEN [ok |-> TRUE, next |-> i + 5, val |-> Hostvars]
              ELSE ParseError
    ELSE ParseError

\* dict[key] = val while decoding: a repeated key keeps its place and takes
\* the later value.
DictSet(data, key, val) ==
    IF DictHas(data, key)
    THEN [i \in 1..Len(data) |->
            IF data[i].key = key THEN [data[i] EXCEPT !.val = val] ELSE data[i]]
    ELSE Append(data, [key |-> key, val |-> val])

\* The members of the top-level object, from token i, up to the closing
\* brace, which must be the last token.
RECURSIVE ParseItems(_, _, _)
ParseItems(toks, i, acc) ==
    IF i > Len(toks) THEN ParseError
    ELSE IF toks[i].k = "}"
         THEN IF i = Len(toks) THEN [ok |-> TRUE, next |-> i + 1, val |-> acc]
              ELSE ParseError
    ELSE IF toks[i].k = "str"
         THEN LET v == ParseValue(toks, i + 1)
              IN IF v.ok THEN ParseItems(toks, v.next, DictSet(acc, Str(toks[i].s), v.val))
                 ELSE ParseError
    ELSE ParseError

\* load(f): the document in the file, or ValueError.
load(toks) ==
    IF toks # <<>> /\ toks[1].k = "{" THEN ParseItems(toks, 2, <<>>) ELSE ParseError

-----------------------------------------------------------------------------
(* The cache manager: invocations of cached_inventory, each a process of   *)
(* its own with a VSphere object of its own, sharing the cache path.  The  *)
(* session is connected and the provider answers every enumeration.        *)

Procs == {"p1", "p2"}

\* cache_path: not set, a bare file name, a file in a directory.
CachePaths == {"", "cache.tmp", "cache/inventory.tmp"}

\* os.path.dirname(cache_path)
dirname(path) == IF path = "cache/inventory.tmp" THEN "cache" ELSE ""

\* os.path.exists(os.path.dirname(cache_path))
DirnameExists == dirname(cachePath) # "" /\ dirExists

\* The enumerations of the provider and the filters the invocations run with.
CacheViews ==
    LET p1 == CHOOSE p \in Profiles : p.powerState = "poweredOn"
        p2 == CHOOSE p \in Profiles : p.powerState = "poweredOff" /\ ~p.template
        a == VirtualMachine(Obj([class |-> "GuestInfo", hostName |-> Str("host1")]),
                            Str("vm0"), p1)
        b == VirtualMachine(Obj([class |-> "GuestInfo"]), Str("vm1"), p2)
    IN { <<a>>, <<a, b>> }

CacheFilters == { << <<"template", Str("False")>> >> }

\* The document a fresh VSphere object lists: list_inventory(filters).
FetchedDocument(vms, kwargs) == list_inventory(<<>>, vms, kwargs).output

\* What the cache file may hold when the invocations start: nothing, the
\* document of an earlier run, or the first tokens of one.
InitialContents ==
    LET old == { dump(FetchedDocument(v, f)) : v \in CacheViews, f \in CacheFilters }
    IN {<<>>} \cup old \cup { SubSeq(t, 1, BufSize) : t \in old }

NewProc(refresh) ==
    [ pc |-> "start", refresh |-> refresh, data |-> <<>>, offset |-> 0,
      result |-> <<>>, err |-> "none", fetches |-> 0, persisted |-> FALSE,
      seen |-> [checked |-> FALSE, isfile |-> FALSE, age |-> 0],
      read |-> [done |-> FALSE, content |-> <<>>] ]

InitCache ==
    /\ inventory = <<>>
    /\ call = NoCall
    /\ docs = <<>>
    /\ view \in CacheViews
    /\ filters \in CacheFilters
    /\ cachePath \in CachePaths
    /\ dirExists \in BOOLEAN
    /\ dirCreatable \in BOOLEAN
    /\ dirname(cachePath) = "" => (~dirExists /\ ~dirCreatable)
    /\ dirExists => ~dirCreatable
    /\ file \in [exists : {TRUE}, content : InitialContents, mtime : {0}]
                \cup { [exists |-> FALSE, content |-> <<>>, mtime |-> 0] }
    /\ file.exists => (cachePath # "" /\ (dirname(cachePath) # "" => dirExists))
    /\ now = 0
    /\ proc \in { [p \in Procs |-> NewProc(r[p])] : r \in [Procs -> BOOLEAN] }
    /\ MainIdle

\* CaughtOnRead with the handler reduced to IOError.
CaughtOnReadIOErrorOnly(exc) == exc \in {"IOError"}

\* The exceptions the handler around the read of the cache file catches.
CaughtOnRead(exc) == exc \in {"ValueError", "IOError"}

\* time() advances.
Tick ==
    /\ now < CacheTtl + 1
    /\ now' = now + 1
    /\ UNCHANGED <<objVars, mainVars, cachePath, dirExists, dirCreatable, file, proc>>

\* Whether the cache file is there and young enough to be served.
IsFresh(f, t, ttl) == f.exists /\ t - f.mtime < ttl

\* cached_inventory, up to the choice of its branch.
CachedInventory(p) ==
    /\ proc[p].pc = "start"
    /\ proc' = [proc EXCEPT ![p] =
                  IF @.refresh THEN [@ EXCEPT !.pc = "fetch"]
                  ELSE [@ EXCEPT !.pc = IF IsFresh(file, now, CacheTtl)
                                        THEN "read" ELSE "exists",
                                 !.seen = [checked |-> TRUE, isfile |-> file.exists,
                                           age |-> now - file.mtime]]]
    /\ UNCHANGED <<objVars, mainVars, cachePath, dirExists, dirCreatable, file, now>>

\* The fresh branch: open the cache file and load it; a failure that the
\* handler catches falls back to list_and_save.  The read returns the
\* content the file has at one instant.
LoadCache(p) ==
    /\ proc[p].pc = "read"
    /\ LET r == load(file.content)
       IN proc' = [proc EXCEPT ![p] =
                     [ IF r.ok THEN [@ EXCEPT !.pc = "done", !.result = r.val]
                       ELSE IF CaughtOnRead("ValueError") THEN [@ EXCEPT !.pc = "fetch"]
                       ELSE [@ EXCEPT !.pc = "failed", !.err = "ValueError"]
                       EXCEPT !.read = [done |-> TRUE, content |-> file.content] ]]
    /\ UNCHANGED <<objVars, mainVars, cachePath, dirExists, dirCreatable, file, now>>

\* The stale or missing branch: the test of the directory of the cache path.
CheckDir(p) ==
    /\ proc[p].pc = "exists"
    /\ proc' = [proc EXCEPT ![p].pc = IF DirnameExists THEN "fetch" ELSE "makedirs"]
    /\ UNCHANGED <<objVars, mainVars, cachePath, dirExists, dirCreatable, file, now>>

\* What the try block raises: OSError without errno for an unset cache path,
\* else what os.makedirs(dirname) raises, if anything.
MakeDirsError ==
    IF cachePath = "" THEN "OSError"
    ELSE IF dirname(cachePath) = "" THEN "ENOENT"
    ELSE IF dirExists THEN "EEXIST"
    ELSE IF ~dirCreatable THEN "EACCES"
    ELSE "none"

\* The creation of the directory and the handler of its OSError.
MakeDirs(p) ==
    /\ proc[p].pc = "makedirs"
    /\ LET e == MakeDirsError
       IN /\ dirExists' = (dirExists \/ e = "none")
          /\ proc' = [proc EXCEPT ![p] =
                        IF e = "EACCES" THEN [@ EXCEPT !.pc = "failed", !.err = "exit(1)"]
                        ELSE IF e \notin {"none", "EEXIST"}
                             THEN [@ EXCEPT !.pc = "failed", !.err = e]
                        ELSE [@ EXCEPT !.pc = "fetch"]]
    /\ UNCHANGED <<objVars, mainVars, cachePath, dirCreatable, file, now>>

\* list_and_save: data = self.list_inventory(filters)
Fetch(p) ==
    /\ proc[p].pc = "fetch"
    /\ proc' = [proc EXCEPT ![p] = [@ EXCEPT !.pc = "open",
                                              !.data = FetchedDocument(view, filters),
                                              !.fetches = @ + 1]]
    /\ UNCHANGED <<objVars, mainVars, cachePath, dirExists, dirCreatable, file, now>>

\* open(cache_path, 'w') raises FileNotFoundError.
OpenFails == cachePath = "" \/ (dirname(cachePath) # "" /\ ~dirExists)

\* list_and_save: open(cache_path, 'w') creates or truncates the file.
OpenForWrite(p) ==
    /\ proc[p].pc = "open"
    /\ IF OpenFails
       THEN /\ proc' = [proc EXCEPT ![p] = [@ EXCEPT !.pc = "failed",
                                                     !.err = "FileNotFoundError"]]
            /\ UNCHANGED file
       ELSE /\ proc' = [proc EXCEPT ![p] = [@ EXCEPT !.pc = "write", !.offset = 0]]
            /\ file' = [exists |-> TRUE, content |-> <<>>, mtime |-> now]
    /\ UNCHANGED <<objVars, mainVars, cachePath, dirExists, dirCreatable, now>>

\* A write of chunk at position off of a file: the file grows as needed.
Overwrite(content, off, chunk) ==
    LET n == IF Len(content) > off + Len(chunk) THEN Len(content) ELSE off + Len(chunk)
    IN [i \in 1..n |->
          IF off < i /\ i <= off + Len(chunk) THEN chunk[i - off]
          ELSE IF i <= Len(content) THEN content[i]
          ELSE Hole]

\* list_and_save: dump(data, fp), one flush of the buffer at a time; the
\* last flush closes the file and the document is returned.
WriteChunk(p) ==
    /\ proc[p].pc = "write"
    /\ LET toks == dump(proc[p].data)
           off == proc[p].offset
           last == IF off + BufSize < Len(toks) THEN off + BufSize ELSE Len(toks)
       IN /\ file' = [file EXCEPT !.content = Overwrite(@, off, SubSeq(toks, off + 1, last)),
                                  !.mtime = now]
          /\ proc' = [proc EXCEPT ![p] =
                        IF last = Len(toks)
                        THEN [@ EXCEPT !.pc = "done", !.offset = last,
                                       !.persisted = TRUE, !.result = proc[p].data]
                        ELSE [@ EXCEPT !.offset = last]]
    /\ UNCHANGED <<objVars, mainVars, cachePath, dirExists, dirCreatable, now>>

NextCache ==
    \/ Tick
    \/ \E p \in Procs :
          \/ CachedInventory(p)
          \/ LoadCache(p)
          \/ CheckDir(p)
          \/ MakeDirs(p)
          \/ Fetch(p)
          \/ OpenForWrite(p)
          \/ WriteChunk(p)

SpecCache == InitCache /\ [][NextCache]_vars

-----------------------------------------------------------------------------
(* Properties of the cache manager.                                        *)

Terminal(p) == proc[p].pc \in {"done", "failed"}

\* What the invocation found when it chose its branch.
SawFresh(p) == proc[p].seen.checked /\ proc[p].seen.isfile /\ proc[p].seen.age < CacheTtl
SawStaleOrMissing(p) ==
    proc[p].seen.checked /\ (~proc[p].seen.isfile \/ proc[p].seen.age >= CacheTtl)

\* The invocation ran the pipeline once, wrote the whole document to the
\* cache file and returned it.
FetchedSavedReturned(p) ==
    /\ proc[p].pc = "done"
    /\ proc[p].fetches = 1
    /\ proc[p].persisted
    /\ proc[p].data = FetchedDocument(view, filters)
    /\ proc[p].result = proc[p].data

\* C2: without refresh, a cache file that is there, younger than cache_ttl
\* and parseable is returned as it is, with no fetch and no write; a file
\* that is missing or not younger than cache_ttl makes the call fetch (the
\* cache path set, the creation of its directory not refused).
C2_FreshServedStaleFetched ==
    \A p \in Procs :
        (Terminal(p) /\ ~proc[p].refresh) =>
            /\ (SawFresh(p) /\ proc[p].read.done /\ load(proc[p].read.content).ok) =>
                  /\ proc[p].pc = "done"
                  /\ proc[p].result = load(proc[p].read.content).val
                  /\ proc[p].fetches = 0
                  /\ ~proc[p].persisted
            /\ (SawStaleOrMissing(p) /\ cachePath # "" /\ proc[p].err # "exit(1)") =>
                  proc[p].fetches >= 1

\* C3: with refresh, whatever the state of the cache and of its directory,
\* the call fetches once, writes the document to the cache file and returns
\* it (the cache path set).
C3_RefreshFetchesAndOverwrites ==
    \A p \in Procs :
        (Terminal(p) /\ proc[p].refresh /\ cachePath # "") => FetchedSavedReturned(p)

\* The documents the pipeline produces for the provider's enumerations.
WholeDocuments == { FetchedDocument(v, f) : v \in CacheViews, f \in CacheFilters }

\* C4: an invocation that reads a cache file it cannot parse fetches, saves
\* and returns the fresh document; no invocation ends in the parse error,
\* and no invocation returns part of a document.
C4_ParseFailureIsCacheMiss ==
    \A p \in Procs :
        /\ proc[p].err # "ValueError"
        /\ (Terminal(p) /\ proc[p].read.done /\ ~load(proc[p].read.content).ok) =>
              FetchedSavedReturned(p)
        /\ proc[p].pc = "done" => proc[p].result \in WholeDocuments

\* C4, witness: an invocation read the file while the other one was in the
\* middle of writing it (more tokens than one flush, not yet a document),
\* and both have returned.
C4_Witness ==
    \E p, q \in Procs :
        /\ p # q
        /\ proc[p].pc = "done"
        /\ proc[q].pc = "done"
        /\ proc[p].read.done
        /\ Len(proc[p].read.content) > BufSize
        /\ ~load(proc[p].read.content).ok
        /\ proc[q].persisted

\* C5: without refresh, on a missing or stale cache and a non-empty cache
\* path, the call makes sure the directory is there, then fetches once,
\* saves and returns the document (the creation of the directory not
\* refused).
C5_StaleEnsuresDirThenFetches ==
    \A p \in Procs :
        (Terminal(p) /\ ~proc[p].refresh /\ SawStaleOrMissing(p) /\ cachePath # ""
            /\ proc[p].err # "exit(1)") =>
                FetchedSavedReturned(p)

-----------------------------------------------------------------------------
(* main: the command line, the configuration file, and the session opened. *)

\* The command lines of the model: what parse_args returns for them.  An
\* option that is not given is None, a flag that is not given is False.
ArgvSet ==
    [ hostname : {None}, username : {None, Str("alice")},
      password : {None, Str("pw-arg")}, port : {None, Str("8443")},
      no_cert_check : {Bool(FALSE), Bool(TRUE)},
      guest : {None, Str("host1")}, host : {None},
      reload_cache : {Bool(FALSE), Bool(TRUE)}, list : {Bool(FALSE), Bool(TRUE)} ]

\* The [GENERIC] section of the configuration file: None for an option the
\* file does not set.
IniFiles ==
    [ vsphere_host : {Str("vcenter")}, vsphere_user : {None, Str("bob")},
      vsphere_pass : {None, Str("pw-ini")}, vsphere_port : {None},
      vsphere_cert_check : {None, Str("true"), Str("false"), Str("no")} ]

\* config.get(section, option, fallback=...)
ConfigGet(config, option, fallback) ==
    IF config[option] = None THEN fallback ELSE config[option]

\* config.getboolean(section, option, fallback=...)
ConfigGetBoolean(config, option, fallback) ==
    IF config[option] = None THEN fallback
    ELSE Bool(config[option].v \in {"1", "yes", "true", "on"})

\* parse_config(): the settings of the session among the values it returns.
parse_config(config) ==
    [ vsphere_host |-> ConfigGet(config, "vsphere_host", Str("")),
      vsphere_user |-> ConfigGet(config, "vsphere_user", Str("")),
      vsphere_pass |-> ConfigGet(config, "vsphere_pass", Str("")),
      vsphere_port |-> ConfigGet(config, "vsphere_port", Str("")),
      vsphere_cert_check |-> ConfigGetBoolean(config, "vsphere_cert_check", Bool(TRUE)) ]

\* `if not args.x: setattr(args, x, value)`
SetIfNot(ns, attr, value) ==
    IF ~Truthy(ns[attr]) THEN [ns EXCEPT ![attr] = value] ELSE ns

\* The block of main that overrides the settings: the password (prompted
\* for when neither the command line nor the file gives one), the user, the
\* host, the port, and no_cert_check, which takes the value parse_config
\* returned in eighth place.
OverrideArgs(ns, c, typed) ==
    LET vsphere_pass == IF ~Truthy(ns.password) /\ ~Truthy(c.vsphere_pass)
                        THEN typed ELSE c.vsphere_pass
        no_cert_check == c.vsphere_cert_check
        a1 == SetIfNot(ns, "password", vsphere_pass)
        a2 == SetIfNot(a1, "username", c.vsphere_user)
        a3 == SetIfNot(a2, "hostname", c.vsphere_host)
        a4 == SetIfNot(a3, "port", c.vsphere_port)
        a5 == SetIfNot(a4, "no_cert_check", no_cert_check)
    IN SetIfNot(a5, "no_cert_check", no_cert_check)

\* VSphere.__init__: the connect function the flag selects and its arguments.
VSphereInit(hostname, username, password, port, nosslcheck) ==
    [ connect |-> IF Truthy(nosslcheck) THEN "SmartConnectNoSSL" ELSE "SmartConnect",
      host |-> hostname, user |-> username, pwd |-> password, port |-> port ]

InitMain ==
    /\ ObjInit
    /\ CacheIdle
    /\ argv \in ArgvSet
    /\ ini \in IniFiles
    /\ args = <<>>
    /\ conf = <<>>
    /\ mainpc = "start"
    /\ session = <<>>

\* args = get_args(); (...) = parse_config()
GetArgsAndConfig ==
    /\ mainpc = "start"
    /\ args' = argv
    /\ conf' = parse_config(ini)
    /\ mainpc' = "override"
    /\ UNCHANGED <<objVars, cacheVars, argv, ini, session>>

OverrideSettings ==
    /\ mainpc = "override"
    /\ \E typed \in {Str("pw-typed")} : args' = OverrideArgs(args, conf, typed)
    /\ mainpc' = "perform"
    /\ UNCHANGED <<objVars, cacheVars, argv, ini, conf, session>>

\* The requested operation: the stub of --host/--guest, or the session and
\* the listing of --list/--reload-cache, or nothing.
PerformOperations ==
    /\ mainpc = "perform"
    /\ IF Truthy(args.host) \/ Truthy(args.guest)
       THEN mainpc' = "exit(0)" /\ UNCHANGED session
       ELSE IF Truthy(args.list) \/ Truthy(args.reload_cache)
       THEN \E connected \in BOOLEAN :
               IF connected
               THEN /\ session' = VSphereInit(args.hostname, args.username, args.password,
                                              PyInt(443), args.no_cert_check)
                    /\ mainpc' = "connected"
               ELSE mainpc' = "exit(1)" /\ UNCHANGED session
       ELSE mainpc' = "return" /\ UNCHANGED session
    /\ UNCHANGED <<objVars, cacheVars, argv, ini, args, conf>>

NextMain == GetArgsAndConfig \/ OverrideSettings \/ PerformOperations
SpecMain == InitMain /\ [][NextMain]_vars

\* Whether the user asked for a session without certificate verification.
AskedNoCertCheck ==
    \/ argv.no_cert_check = Bool(TRUE)
    \/ (ini.vsphere_cert_check # None
          /\ ConfigGetBoolean(ini, "vsphere_cert_check", Bool(TRUE)) = Bool(FALSE))

\* C10: the session is opened without certificate verification only when
\* -c was given or vsphere_cert_check is false, and with verification when
\* -c was not given and vsphere_cert_check is true or not set.
C10_NoVerificationOnlyOnRequest ==
    mainpc = "connected" =>
        (session.connect = "SmartConnectNoSSL" <=> AskedNoCertCheck)

=============================================================================
